---- MODULE Spec2Model ----
(***************************************************************************)
(* A model of the file-processing core of pyutils: Processor              *)
(* (pyprocess.py), Importer (pyimport.py) and Reader (pyread.py).          *)
(*                                                                         *)
(* One behaviour is one call of one entry point (the variable fn), with    *)
(* arguments drawn in Init and the outside world (file system, catalogue,  *)
(* resolver, worker results, thread scheduling) chosen step by step.       *)
(***************************************************************************)
EXTENDS Integers, Sequences, FiniteSets, TLC

VARIABLES
    fn,               \* the entry point that was called
    args,             \* its arguments
    proc,             \* the Processor's attributes (self.*)
    pc,               \* position in the code
    file_list,        \* get_file_list / process_data: local file_list
    lines,            \* get_file_list: the raw lines it loaded the list from
                      \* (of the list file f, or of the catalogue output)
    batch_done,       \* prestaging: batches whose future has been collected
    resolved_files,   \* prestaging: local resolved_files
    batch_calls,      \* prestaging: outcomes of the mdh calls made per batch
    unit,             \* worker pool: state of the work unit of each file
    collected,        \* worker pool: futures as_completed has yielded
    results,          \* _process_files_parallel: local results
    completed_files,  \* _process_files_parallel: local counter
    failed_files,     \* _process_files_parallel: local counter
    pp_ret,           \* what _process_files_parallel handed to its caller
    called,           \* the file names worker_func has been called with
    ret,              \* what the entry point handed to its caller
    io,               \* kinds of side effect that have happened so far
    log,              \* messages logged so far, <<level, tag>>
    reader,           \* the Reader's attributes (self.*)
    rd_try,           \* Reader._read_remote_file: which try block runs
    attempts,         \* calls of _get_file made by this read_file
    opens,            \* calls of uproot.open made by this read_file
    handle,           \* the file handle uproot.open gave: none, open, closed
    closes,           \* calls of close() on that handle
    file,             \* Importer.import_branches: is the local `file` bound
    tree,             \* Importer.import_branches: was the tree found
    pending,          \* Importer.import_branches: outcome held over finally
    ENV_IS_SETUP,     \* _env_manager: the module's global flag
    env_pc,           \* _env_manager: where each thread is in ensure_environment
    env_calls,        \* _env_manager: ensure_environment calls made per thread
    setups            \* _env_manager: runs of the set-up body, begun and succeeded

vars == <<fn, args, proc, pc, file_list, lines, batch_done, resolved_files,
          batch_calls, unit,
          collected, results, completed_files, failed_files, pp_ret, called,
          ret, io, log, reader, rd_try, attempts, opens, handle, closes, file,
          tree, pending, ENV_IS_SETUP, env_pc, env_calls, setups>>

(***************************************************************************)
(* Bounds of the model.                                                    *)
(***************************************************************************)
MaxFiles == 3       \* longest file list (lines of a list file, catalogue rows)
CpuCount == 2       \* os.cpu_count() of the machine
MaxBatchArg == 2    \* largest non-default batch_size passed to get_file_list
NThreads == 3       \* threads that construct a remote-mode Processor or Reader
MaxEnsure == 2      \* most ensure_environment calls one thread makes

(***************************************************************************)
(* Program constants.                                                      *)
(***************************************************************************)
DefaultBatchSize == 50
PrestageCap == 50

(***************************************************************************)
(* Values.  A string of the program is a sequence of tokens; None is a     *)
(* value no string equals.                                                 *)
(***************************************************************************)
None == <<"None">>
SP == " "
SCHEME == "root://"
FileToks == <<"f1", "f2", "f3", "f4", "f5">>

Truthy(x) == x # None /\ x # <<>>

Min2(a, b) == IF a <= b THEN a ELSE b

RECURSIVE LStrip(_)
LStrip(s) == IF s # <<>> /\ Head(s) = SP THEN LStrip(Tail(s)) ELSE s

RECURSIVE RStrip(_)
RStrip(s) == IF s # <<>> /\ s[Len(s)] = SP
             THEN RStrip(SubSeq(s, 1, Len(s) - 1)) ELSE s

\* str.strip()
Strip(s) == RStrip(LStrip(s))

\* file_name.startswith(("root://", "http://", "dcap://")), for the one scheme
\* the model's names use
StartsWithScheme(s) == s # <<>> /\ Head(s) = SCHEME

\* sum(x is not None for x in [file_name, defname, file_list_path])
FileSources(a) ==
    (IF a.file_name # None THEN 1 ELSE 0)
  + (IF a.defname # None THEN 1 ELSE 0)
  + (IF a.file_list_path # None THEN 1 ELSE 0)

\* (mutant of ReadLines) the non-blank lines are kept as they are, unstripped
ReadLinesUnstripped(content) ==
    SelectSeq(content, LAMBDA l : \E k \in 1..Len(l) : l[k] # " ")

\* [line.strip() for line in f if line.strip()]
ReadLines(content) ==
    LET stripped == [k \in 1..Len(content) |-> Strip(content[k])]
    IN  SelectSeq(stripped, LAMBDA l : l # <<>>)

\* (mutant of CatalogLines) output.splitlines(), the empty lines kept
CatalogLinesUnfiltered(output) == output

\* [line for line in output.splitlines() if line]
CatalogLines(output) == SelectSeq(output, LAMBDA l : l # <<>>)

\* the URL mdh print-url prints for a file (schema root)
ResolvedURL(f) == <<SCHEME>> \o f

(***************************************************************************)
(* What the outside world can hand to the program.                         *)
(***************************************************************************)
\* the lines a list file can hold at line k
RawLines(k) == { <<>>, <<SP>>, <<FileToks[k]>>, <<SP, FileToks[k], SP>> }

FileContents ==
    UNION { { c \in [1..n -> UNION { RawLines(k) : k \in 1..MaxFiles }] :
                \A k \in 1..n : c[k] \in RawLines(k) } : n \in 0..MaxFiles }

\* the rows a catalogue query can print at row k
CatalogRows(k) == { <<>>, <<FileToks[k]>> }

CatalogOutputs ==
    UNION { { c \in [1..n -> UNION { CatalogRows(k) : k \in 1..MaxFiles }] :
                \A k \in 1..n : c[k] \in CatalogRows(k) } : n \in 0..MaxFiles }

\* what one call of the worker function can do
WorkerOutcomes == {"value", "None", "raise"}

(***************************************************************************)
(* Shorthands.                                                             *)
(***************************************************************************)
envVars == <<ENV_IS_SETUP, env_pc, env_calls, setups>>
\* what no step of a call writes: the entry point, its arguments, the
\* Processor's attributes, the environment manager's state
static == <<fn, args, proc, envVars>>
prestageVars == <<batch_done, resolved_files, batch_calls>>
poolVars == <<unit, collected, results, completed_files, failed_files, pp_ret>>
readVars == <<reader, rd_try, attempts, opens, handle>>
impVars == <<closes, file, tree, pending>>
procVars == <<file_list, lines, prestageVars, poolVars, called>>

Returned(kind, val) == [kind |-> kind, val |-> val]
Raised(what) == [kind |-> "raise", val |-> <<what>>]
NoValue == [kind |-> "", val |-> <<>>]

(***************************************************************************)
(* Processor.get_file_list                                                 *)
(***************************************************************************)
\* `return lst` of get_file_list: to the caller of the entry point, or back
\* into process_data (file_list = self.get_file_list(...))
GflReturn(lst) ==
    /\ file_list' = lst
    /\ IF fn = "get_file_list"
       THEN pc' = "done" /\ ret' = Returned("list", lst)
       ELSE pc' = "pd_files" /\ UNCHANGED ret

\* the if / elif / elif / else on the three sources
GflDispatch ==
    /\ pc = "gfl_start"
    /\ UNCHANGED <<readVars, impVars>>
    /\ UNCHANGED <<called, lines>>
    /\ UNCHANGED <<static, prestageVars, poolVars, io>>
    /\ IF Truthy(args.file_name)
       THEN IF proc.use_remote /\ StartsWithScheme(args.file_name)
            THEN GflReturn(<<args.file_name>>) /\ UNCHANGED log
            ELSE /\ pc' = "gfl_exists_name"
                 /\ file_list' = <<args.file_name>>
                 /\ UNCHANGED <<ret, log>>
       ELSE IF Truthy(args.file_list_path)
       THEN pc' = "gfl_exists_list" /\ UNCHANGED <<file_list, ret, log>>
       ELSE IF Truthy(args.defname)
       THEN pc' = "gfl_catalog" /\ UNCHANGED <<file_list, ret, log>>
       ELSE /\ log' = log \cup {<<"error", "no_source">>}
            /\ GflReturn(<<>>)

\* elif os.path.exists(file_name): return file_list / else: warn, return []
GflExistsName ==
    /\ pc = "gfl_exists_name"
    /\ UNCHANGED <<readVars, impVars>>
    /\ UNCHANGED <<called, lines>>
    /\ io' = io \cup {"exists"}
    /\ UNCHANGED <<static, prestageVars, poolVars>>
    /\ \E exists \in BOOLEAN :
         IF exists
         THEN GflReturn(file_list) /\ UNCHANGED log
         ELSE /\ log' = log \cup {<<"warning", "file_missing">>}
              /\ GflReturn(<<>>)

\* if not os.path.exists(file_list_path): error, return []
GflExistsList ==
    /\ pc = "gfl_exists_list"
    /\ UNCHANGED <<readVars, impVars>>
    /\ UNCHANGED <<called, lines>>
    /\ io' = io \cup {"exists"}
    /\ UNCHANGED <<static, prestageVars, poolVars>>
    /\ \E exists \in BOOLEAN :
         IF exists
         THEN pc' = "gfl_read" /\ UNCHANGED <<file_list, ret, log>>
         ELSE /\ log' = log \cup {<<"error", "list_missing">>}
              /\ GflReturn(<<>>)

\* with open(file_list_path) as f: file_list = [stripped non-blank lines]
GflRead ==
    /\ pc = "gfl_read"
    /\ UNCHANGED <<readVars, impVars>>
    /\ UNCHANGED called
    /\ io' = io \cup {"read"}
    /\ \E content \in FileContents :
         /\ lines' = content
         /\ file_list' = ReadLines(content)
    /\ pc' = "gfl_loaded"
    /\ UNCHANGED <<static, prestageVars, poolVars, ret, log>>

\* samweb list-files ...: the rows, or an exception -> error, return [] ;
\* check_output is given no timeout: a tool that never answers blocks the call
GflCatalog ==
    /\ pc = "gfl_catalog"
    /\ UNCHANGED <<readVars, impVars>>
    /\ UNCHANGED called
    /\ io' = io \cup {"catalog"}
    /\ UNCHANGED <<static, prestageVars, poolVars>>
    /\ \/ /\ log' = log \cup {<<"error", "catalog_exception">>}
          /\ GflReturn(<<>>)
          /\ UNCHANGED lines
       \/ /\ \E output \in CatalogOutputs :
               /\ lines' = output
               /\ file_list' = CatalogLines(output)
          /\ pc' = "gfl_loaded"
          /\ UNCHANGED <<ret, log>>
       \/ /\ pc' = "blocked"
          /\ UNCHANGED <<file_list, lines, ret, log>>

\* range(0, n_files, batch_size): the number of batches
NBatches(n, bs) == (n + bs - 1) \div bs

\* (mutant of BatchFiles) file_list[i:i + batch_size + 1]
BatchFilesOverlapping(fl, bs, b) ==
    SubSeq(fl, b * bs + 1, Min2((b + 1) * bs + 1, Len(fl)))

\* file_list[i:i + batch_size] of batch b (b counts from 0)
BatchFiles(fl, bs, b) == SubSeq(fl, b * bs + 1, Min2((b + 1) * bs, Len(fl)))

\* min(n_files // batch_size + 1, 2 * os.cpu_count(), 50)
PrestageThreads(n, bs) == Min2(Min2(n \div bs + 1, 2 * CpuCount), PrestageCap)

\* if len(file_list) == 0: warn, return [] ; if self.use_remote: with
\* file_name one direct mdh call and return, else prestage in batches ;
\* else the final logging and return file_list
GflLoaded ==
    /\ pc = "gfl_loaded"
    /\ UNCHANGED <<readVars, impVars>>
    /\ UNCHANGED <<called, lines>>
    /\ UNCHANGED <<static, poolVars>>
    /\ IF Len(file_list) = 0
       THEN /\ log' = log \cup {<<"warning", "empty_list">>}
            /\ GflReturn(<<>>)
            /\ UNCHANGED <<prestageVars, io>>
       ELSE IF proc.use_remote /\ Truthy(args.file_name)
       THEN /\ io' = io \cup {"resolver"}
            /\ UNCHANGED prestageVars
            /\ \E ok \in BOOLEAN :
                 IF ok
                 THEN /\ log' = log \cup {<<"info", "single_file">>}
                      /\ GflReturn(<<ResolvedURL(file_list[1])>>)
                 ELSE /\ log' = log \cup {<<"info", "single_file">>,
                                          <<"warning", "single_failed">>}
                      /\ GflReturn(<<>>)
       ELSE IF proc.use_remote
       THEN /\ pc' = "gfl_prestage"
            /\ batch_done' = {}
            /\ resolved_files' = <<>>
            /\ batch_calls' =
                 [b \in 1..NBatches(Len(file_list), args.batch_size) |-> <<>>]
            /\ io' = io \cup {"prestage_pool"}
            /\ UNCHANGED <<file_list, ret, log>>
       ELSE /\ log' = log \cup {<<"success", "loaded">>}
            /\ GflReturn(file_list)
            /\ UNCHANGED <<prestageVars, io>>

\* a batch can have run only if a prestage thread was free for it: the pool
\* starts the batches in submission order
BatchCanComplete(b) ==
    /\ b \in 0..(NBatches(Len(file_list), args.batch_size) - 1)
    /\ b \notin batch_done
    /\ Cardinality({ c \in 0..(b - 1) : c \notin batch_done })
         < PrestageThreads(Len(file_list), args.batch_size)

\* (mutant of BatchURLs) a batch that failed hands its names back unresolved
BatchURLsKeepUnresolved(files, ok) ==
    IF ok THEN [k \in 1..Len(files) |-> <<"root://">> \o files[k]] ELSE files

\* what resolve_batch returns: the URLs mdh printed, one per file, or [] after
\* a non-zero exit, a timeout or an exception
BatchURLs(files, ok) ==
    IF ok THEN [k \in 1..Len(files) |-> ResolvedURL(files[k])] ELSE <<>>

\* resolve_batch of one batch and `resolved_files.extend(future.result())`:
\* one mdh call; non-zero exit, timeout (subprocess.run is given one, so a
\* tool that never answers ends as TimeoutExpired) or exception give []
GflBatch ==
    /\ pc = "gfl_prestage"
    /\ UNCHANGED <<readVars, impVars>>
    /\ UNCHANGED <<called, lines>>
    /\ \E b \in 0..(MaxFiles - 1) :
         /\ BatchCanComplete(b)
         /\ batch_done' = batch_done \cup {b}
         /\ \E ok \in BOOLEAN :
              /\ batch_calls' =
                   [batch_calls EXCEPT ![b + 1] =
                      Append(@, IF ok THEN "ok" ELSE "failed")]
              /\ resolved_files' = resolved_files \o
                   BatchURLs(BatchFiles(file_list, args.batch_size, b), ok)
              /\ log' = IF ok THEN log
                        ELSE log \cup {<<"warning", "batch_failed">>}
    /\ io' = io \cup {"resolver"}
    /\ UNCHANGED <<static, poolVars, file_list, pc, ret>>

\* (mutant of GflPrestaged) the resolved list is kept on the Processor too:
\* self.file_list = resolved_files
GflPrestagedKeepsList ==
    /\ pc = "gfl_prestage"
    /\ UNCHANGED <<readVars, impVars>>
    /\ UNCHANGED <<called, lines>>
    /\ batch_done = 0..(Len(batch_calls) - 1)
    /\ log' = log \cup {<<"success", "loaded">>}
    /\ GflReturn(resolved_files)
    /\ proc' = [tree_path |-> proc.tree_path, use_remote |-> proc.use_remote,
                location |-> proc.location, schema |-> proc.schema,
                verbosity |-> proc.verbosity,
                worker_verbosity |-> proc.worker_verbosity,
                file_list |-> resolved_files]
    /\ UNCHANGED <<fn, args, envVars, prestageVars, poolVars, io>>

\* file_list = resolved_files ; the final logging ; return file_list
GflPrestaged ==
    /\ pc = "gfl_prestage"
    /\ UNCHANGED <<readVars, impVars>>
    /\ UNCHANGED <<called, lines>>
    /\ batch_done = 0..(NBatches(Len(file_list), args.batch_size) - 1)
    /\ log' = log \cup { IF Len(resolved_files) > 0
                         THEN <<"success", "loaded">>
                         ELSE <<"warning", "empty_list">> }
    /\ GflReturn(resolved_files)
    /\ UNCHANGED <<static, prestageVars, poolVars, io>>

(***************************************************************************)
(* Processor._process_files_parallel                                       *)
(***************************************************************************)
Finished == {"value", "None", "raise"}

NFiles == Len(file_list)

\* max_workers, with the default min(len(file_list), os.cpu_count())
MaxWorkers ==
    IF args.max_workers = <<>> THEN Min2(NFiles, CpuCount)
    ELSE args.max_workers[1]

\* ExecutorClass = ProcessPoolExecutor if use_processes else ThreadPoolExecutor
ExecutorClass(use_processes) ==
    IF use_processes THEN "process_pool" ELSE "thread_pool"

\* one entry of a result list: what the worker gave for a file
Result(f, kind) == [file |-> f, kind |-> kind]

\* `return r` / an exception leaving _process_files_parallel: to the caller of
\* the entry point, or back into process_data, which has no handler
PpReturn(r) ==
    /\ pp_ret' = r
    /\ IF fn = "_process_files_parallel" \/ r.kind = "raise"
       THEN pc' = "done" /\ ret' = r
       ELSE pc' = "pd_results" /\ UNCHANGED ret

\* if not file_list: error, return None ; if len(file_list) == 1: direct ;
\* else set max_workers, the counters and open the executor
PpStart ==
    /\ pc = "pp_start"
    /\ UNCHANGED <<readVars, impVars>>
    /\ UNCHANGED <<called, lines>>
    /\ UNCHANGED <<static, prestageVars, file_list, collected>>
    /\ IF NFiles = 0
       THEN /\ log' = log \cup {<<"error", "empty_file_list">>}
            /\ PpReturn(Returned("None", <<>>))
            /\ UNCHANGED <<unit, results, completed_files, failed_files, io>>
       ELSE IF NFiles = 1
       THEN /\ pc' = "pp_direct"
            /\ UNCHANGED <<unit, results, completed_files, failed_files,
                           pp_ret, ret, io, log>>
       ELSE /\ pc' = "pp_submit"
            /\ unit' = [i \in 1..NFiles |-> "new"]
            /\ results' = <<>>
            /\ completed_files' = 0
            /\ failed_files' = 0
            /\ io' = io \cup {ExecutorClass(args.use_processes)}
            /\ log' = log \cup {<<"info", "starting">>}
            /\ UNCHANGED <<pp_ret, ret>>

\* (mutant of SingleResult) a None result is dropped, as the pool loop does
SingleResultFiltered(f, o) ==
    IF o = "None" THEN <<>> ELSE <<[file |-> f, kind |-> o]>>

\* the list handed back for a single file: return [result]
SingleResult(f, o) == <<Result(f, o)>>

\* result = worker_func(file_list[0]) ; return [result]
PpDirect ==
    /\ pc = "pp_direct"
    /\ UNCHANGED <<readVars, impVars>>
    /\ UNCHANGED lines
    /\ called' = Append(called, file_list[1])
    /\ io' = io \cup {"worker"}
    /\ UNCHANGED <<static, prestageVars, file_list, unit, collected, results,
                   completed_files, failed_files, log>>
    /\ \E o \in WorkerOutcomes :
         IF o = "raise"
         THEN PpReturn(Raised("WorkerError"))
         ELSE PpReturn(Returned("list", SingleResult(file_list[1], o)))

\* executor.submit(worker_func, file_name), file by file
PpSubmit ==
    /\ pc = "pp_submit"
    /\ UNCHANGED <<readVars, impVars>>
    /\ UNCHANGED <<called, lines>>
    /\ \E i \in 1..NFiles :
         /\ unit[i] = "new"
         /\ \A j \in 1..(i - 1) : unit[j] # "new"
         /\ unit' = [unit EXCEPT ![i] = "pending"]
         /\ pc' = IF i = NFiles THEN "pp_collect" ELSE "pp_submit"
    /\ UNCHANGED <<static, prestageVars, file_list, collected, results,
                   completed_files, failed_files, pp_ret, ret, io, log>>

\* a pool thread takes the oldest queued work item
WorkerStart ==
    /\ pc \in {"pp_submit", "pp_collect", "pp_drain"}
    /\ UNCHANGED <<readVars, impVars>>
    /\ UNCHANGED lines
    /\ \E i \in 1..NFiles :
         /\ unit[i] = "pending"
         /\ \A j \in 1..(i - 1) : unit[j] # "pending"
         /\ Cardinality({ j \in 1..NFiles : unit[j] = "running" }) < MaxWorkers
         /\ unit' = [unit EXCEPT ![i] = "running"]
         /\ called' = Append(called, file_list[i])
    /\ io' = io \cup {"worker"}
    /\ UNCHANGED <<static, prestageVars, file_list, pc, collected, results,
                   completed_files, failed_files, pp_ret, ret, log>>

\* worker_func(file_name) ends in the pool: a value, None or an exception
WorkerFinish ==
    /\ pc \in {"pp_submit", "pp_collect", "pp_drain"}
    /\ UNCHANGED <<readVars, impVars>>
    /\ UNCHANGED <<called, lines>>
    /\ \E i \in 1..NFiles, o \in WorkerOutcomes :
         /\ unit[i] = "running"
         /\ unit' = [unit EXCEPT ![i] = o]
    /\ UNCHANGED <<static, prestageVars, file_list, pc, collected, results,
                   completed_files, failed_files, pp_ret, ret, io, log>>

\* (mutant of CountFailed) a None result is not counted
CountFailedOnlyRaise(n, o) == IF o = "raise" THEN n + 1 ELSE n

\* the counters after the future of a unit that ended as o was handled
CountCompleted(n, o) == IF o = "value" THEN n + 1 ELSE n
CountFailed(n, o) == IF o = "value" THEN n ELSE n + 1

\* (mutant of Collect) results.append(result) without the test for None
CollectKeepNone(res, f, o) ==
    IF o = "raise" THEN res ELSE Append(res, [file |-> f, kind |-> o])

\* (mutant of Collect) results.insert(0, result): the newest result first
CollectPrepend(res, f, o) ==
    IF o = "value" THEN <<[file |-> f, kind |-> o]>> \o res ELSE res

\* (mutant of Collect) results = [result] in place of results.append(result)
CollectOverwrite(res, f, o) ==
    IF o = "value" THEN <<[file |-> f, kind |-> o]>> ELSE res

\* results after the future of file f that ended as o was handled
Collect(res, f, o) == IF o = "value" THEN Append(res, Result(f, o)) ELSE res

\* where the loop goes after a future that ended as o: `raise e` leaves it
AfterFuture(o) == IF o = "raise" THEN "pp_drain" ELSE "pp_collect"

\* one round of `for future in as_completed(futures)`
PpCollect ==
    /\ pc = "pp_collect"
    /\ UNCHANGED <<readVars, impVars>>
    /\ UNCHANGED <<called, lines>>
    /\ \E i \in 1..NFiles :
         /\ i \notin collected
         /\ unit[i] \in Finished
         /\ collected' = collected \cup {i}
         /\ results' = Collect(results, file_list[i], unit[i])
         /\ completed_files' = CountCompleted(completed_files, unit[i])
         /\ failed_files' = CountFailed(failed_files, unit[i])
         /\ pc' = AfterFuture(unit[i])
         /\ log' = IF unit[i] = "raise"
                   THEN log \cup {<<"error", "worker_exception">>} ELSE log
    /\ UNCHANGED <<static, prestageVars, file_list, unit, pp_ret, ret, io>>

\* (mutant of LoopExhausted) the loop is left after its first future
LoopExhaustedEarly == collected # {}

\* as_completed(futures) has yielded every future
LoopExhausted == collected = 1..NFiles

\* the loop is exhausted, the executor closes with nothing left: return results
PpLoopEnd ==
    /\ pc = "pp_collect"
    /\ UNCHANGED <<readVars, impVars>>
    /\ UNCHANGED <<called, lines>>
    /\ LoopExhausted
    /\ PpReturn(Returned("list", results))
    /\ UNCHANGED <<static, prestageVars, file_list, unit, collected, results,
                   completed_files, failed_files, io, log>>

\* (mutant of ShutdownDone) shutdown(wait=False): the exception leaves at once
ShutdownNoWait == TRUE

\* the executor's `with` exit after `raise e`, shutdown(wait=True): it
\* returns once no work item is queued or running
ShutdownDone == \A i \in 1..NFiles : unit[i] \in Finished

\* then the exception reaches the caller
PpDrained ==
    /\ pc = "pp_drain"
    /\ UNCHANGED <<readVars, impVars>>
    /\ UNCHANGED <<called, lines>>
    /\ ShutdownDone
    /\ PpReturn(Raised("WorkerError"))
    /\ UNCHANGED <<static, prestageVars, file_list, unit, collected, results,
                   completed_files, failed_files, io, log>>

(***************************************************************************)
(* Processor.process_data                                                  *)
(***************************************************************************)
\* the array the default worker imports from a file: its events
Events(f) == << f \o <<"#1">>, f \o <<"#2">> >>

\* ak.concatenate(results): the arrays' events, in the order of the list
RECURSIVE Concatenate(_)
Concatenate(res) ==
    IF res = <<>> THEN <<>>
    ELSE Events(Head(res).file) \o Concatenate(Tail(res))

\* (mutant of DirectValue) the result is wrapped in a list, as
\* _process_files_parallel does for a list of one file
DirectValueWrapped(f, o) == [kind |-> "list", val |-> <<[file |-> f, kind |-> o]>>]

\* what the caller gets for one worker call made directly
DirectValue(f, o) ==
    IF o = "None" THEN Returned("None", <<>>)
    ELSE IF args.worker = "default" THEN Returned("array", Events(f))
    ELSE Returned("value", <<f>>)

\* `return r` / an exception leaving process_data: to the caller of the entry
\* point, or back into Skeleton.execute (results = processor.process_data(...)),
\* which has no handler
PdReturn(r) ==
    /\ ret' = r
    /\ pc' = IF fn = "execute" /\ r.kind # "raise" THEN "ex_post" ELSE "done"

\* (mutant of Rejected) only the call with no source at all is turned away
RejectedOnlyWithoutSource(a) ==
    \/ FileSources(a) = 0
    \/ a.worker \in {"not_callable", "bad_arity"}

\* (mutant of Rejected) the custom worker is not looked at
RejectedOnlyBySources(a) == FileSources(a) # 1

\* the checks that come before any file is looked at: exactly one source,
\* and a custom worker that is callable with one parameter
Rejected(a) ==
    \/ FileSources(a) # 1
    \/ a.worker \in {"not_callable", "bad_arity"}

\* the checks on the arguments, then worker_func is set up and
\* get_file_list is called
PdValidate ==
    /\ pc = "pd_start"
    /\ UNCHANGED <<readVars, impVars>>
    /\ UNCHANGED <<called, lines>>
    /\ UNCHANGED <<static, prestageVars, poolVars, file_list, io>>
    /\ IF Rejected(args)
       THEN /\ log' = log \cup
                 { IF FileSources(args) # 1 THEN <<"error", "exactly_one">>
                   ELSE <<"error", args.worker>> }
            /\ PdReturn(Returned("None", <<>>))
       ELSE /\ pc' = "gfl_start"
            /\ UNCHANGED <<ret, log>>

\* get_file_list has returned and its frame, the lines of f with it, is gone;
\* if file_name: result = worker_func(file_list[0]) ... ; else the pool
PdFiles ==
    /\ pc = "pd_files"
    /\ UNCHANGED <<readVars, impVars>>
    /\ UNCHANGED called
    /\ lines' = <<>>
    /\ UNCHANGED <<static, prestageVars, poolVars, file_list, io, log>>
    /\ IF Truthy(args.file_name)
       THEN IF file_list = <<>>
            THEN PdReturn(Raised("IndexError"))
            ELSE pc' = "pd_direct" /\ UNCHANGED ret
       ELSE pc' = "pp_start" /\ UNCHANGED ret

\* result = worker_func(file_list[0]) ; log ; return result
PdDirect ==
    /\ pc = "pd_direct"
    /\ UNCHANGED <<readVars, impVars>>
    /\ UNCHANGED lines
    /\ called' = Append(called, file_list[1])
    /\ io' = io \cup {"worker"}
    /\ UNCHANGED <<static, prestageVars, poolVars, file_list>>
    /\ \E o \in WorkerOutcomes :
         IF o = "raise"
         THEN PdReturn(Raised("WorkerError")) /\ UNCHANGED log
         ELSE /\ PdReturn(DirectValue(file_list[1], o))
              /\ log' = log \cup {<<"success", "completed">>}

\* (mutant of Aggregate) the list of a custom worker is concatenated too
AggregateAlwaysConcatenates(res) ==
    IF res = <<>> \/ \E k \in 1..Len(res) : res[k].kind = "None"
    THEN [kind |-> "raise", val |-> <<"ConcatenateError">>]
    ELSE [kind |-> "array", val |-> Concatenate(res)]

\* what process_data makes of the list _process_files_parallel returned
Aggregate(res) ==
    IF args.worker # "default" THEN Returned("list", res)
    ELSE IF res = <<>> \/ \E k \in 1..Len(res) : res[k].kind = "None"
    THEN Raised("ConcatenateError")
    ELSE Returned("array", Concatenate(res))

\* len(results) ; ak.concatenate(results) or the list itself ; return
PdResults ==
    /\ pc = "pd_results"
    /\ UNCHANGED <<readVars, impVars>>
    /\ UNCHANGED <<called, lines>>
    /\ UNCHANGED <<static, prestageVars, poolVars, file_list, io>>
    /\ IF pp_ret.kind = "None"
       THEN PdReturn(Raised("TypeError")) /\ UNCHANGED log
       ELSE /\ PdReturn(Aggregate(pp_ret.val))
            /\ log' = log
                 \cup (IF Len(pp_ret.val) = 0
                       THEN {<<"warning", "no_results">>} ELSE {})
                 \cup (IF Aggregate(pp_ret.val).kind = "raise" THEN {}
                       ELSE IF args.worker = "default"
                       THEN {<<"success", "concatenated">>}
                       ELSE {<<"info", "returning">>})

(***************************************************************************)
(* Skeleton.execute                                                        *)
(***************************************************************************)
\* Skeleton.postprocess, the placeholder: return results
Postprocess(r) == r

\* the check on the three sources, then Processor(...) is built and
\* processor.process_data(..., custom_worker_func=self.process_file) called
ExStart ==
    /\ pc = "ex_start"
    /\ UNCHANGED <<readVars, impVars>>
    /\ UNCHANGED <<static, procVars, io>>
    /\ IF FileSources(args) # 1
       THEN /\ log' = log \cup {<<"info", "starting_analysis">>,
                                <<"error", "exactly_one">>}
            /\ pc' = "done"
            /\ ret' = Returned("None", <<>>)
       ELSE /\ log' = log \cup {<<"info", "starting_analysis">>}
            /\ pc' = "pd_start"
            /\ UNCHANGED ret

\* results = self.postprocess(results) ; log ; return results
ExPost ==
    /\ pc = "ex_post"
    /\ UNCHANGED <<readVars, impVars>>
    /\ ret' = Postprocess(ret)
    /\ log' = log \cup {<<"success", "analysis_complete">>}
    /\ pc' = "done"
    /\ UNCHANGED <<static, procVars, io>>

(***************************************************************************)
(* Reader.read_file                                                        *)
(***************************************************************************)
\* `return file` of read_file: to the caller of the entry point, or back into
\* import_branches (file = self.reader.read_file(...))
RdReturn ==
    IF fn = "read_file"
    THEN pc' = "done" /\ ret' = Returned("handle", <<>>) /\ UNCHANGED file
    ELSE pc' = "imp_tree" /\ file' = "bound" /\ UNCHANGED ret

\* an exception leaving read_file: to the caller of the entry point, or into
\* the except clause of import_branches, `file` never assigned
RdRaise ==
    IF fn = "read_file"
    THEN pc' = "done" /\ ret' = Raised("OpenError") /\ UNCHANGED file
    ELSE pc' = "imp_except" /\ UNCHANGED <<ret, file>>

\* if self.use_remote: _read_remote_file else _read_local_file
RdStart ==
    /\ pc = "rd_start"
    /\ pc' = IF reader.use_remote THEN "rd_resolve" ELSE "rd_local"
    /\ log' = IF reader.use_remote
              THEN log \cup {<<"info", "opening_remote">>} ELSE log
    /\ UNCHANGED <<static, procVars, ret, io, readVars, impVars>>

\* _read_local_file called by read_file: uproot.open, or log and re-raise
RdLocal ==
    /\ pc = "rd_local"
    /\ io' = io \cup {"open"}
    /\ opens' = opens + 1
    /\ UNCHANGED <<static, procVars, reader, rd_try, attempts, closes, tree,
                   pending>>
    /\ \E ok \in BOOLEAN :
         IF ok
         THEN /\ handle' = "open"
              /\ log' = log \cup {<<"success", "opened">>}
              /\ RdReturn
         ELSE /\ log' = log \cup {<<"warning", "open_exception">>}
              /\ RdRaise
              /\ UNCHANGED handle

\* (mutant of AfterFailure) every failure goes back into the fallback
AfterFailureAlwaysRetry(try) == "rd_locate"

\* where a failure inside _get_file leads: from the first try block into the
\* fallback, from the second out of read_file
AfterFailure(try) == IF try = "first" THEN "rd_locate" ELSE "raise"

\* an exception of _get_file, caught by the try block that runs
GetFileFailed ==
    IF AfterFailure(rd_try) = "raise"
    THEN /\ log' = log \cup {<<"warning", "fallback_failed">>}
         /\ RdRaise
    ELSE /\ pc' = "rd_locate"
         /\ UNCHANGED <<ret, file, log>>

\* _get_file, first half: mdh print-url with self.location and self.schema ;
\* check_output is given no timeout: a tool that never answers blocks the call
RdResolve ==
    /\ pc = "rd_resolve"
    /\ attempts' = attempts + 1
    /\ io' = io \cup {"resolver"}
    /\ UNCHANGED <<static, procVars, reader, rd_try, opens, handle, closes,
                   tree, pending>>
    /\ \/ \E ok \in BOOLEAN :
            IF ok
            THEN /\ pc' = "rd_open"
                 /\ log' = log \cup {<<"info", "created_path">>}
                 /\ UNCHANGED <<ret, file>>
            ELSE GetFileFailed
       \/ /\ pc' = "blocked"
          /\ UNCHANGED <<ret, file, log>>

\* _get_file, second half: self._read_local_file(this_file_path)
RdOpen ==
    /\ pc = "rd_open"
    /\ io' = io \cup {"open"}
    /\ opens' = opens + 1
    /\ UNCHANGED <<static, procVars, reader, rd_try, attempts, closes, tree,
                   pending>>
    /\ \E ok \in BOOLEAN :
         IF ok
         THEN /\ handle' = "open"
              /\ log' = log \cup {<<"success", "opened">>}
              /\ RdReturn
         ELSE /\ GetFileFailed
              /\ UNCHANGED handle

\* the words the if / elif chain of _check_file_location looks for
LocationWords == {"tape", "persistent", "scratch"}

\* self.location after _check_file_location read a path holding `words`
NewLocation(loc, words) ==
    IF "tape" \in words /\ loc # "tape" THEN "tape"
    ELSE IF "persistent" \in words /\ loc # "disk" THEN "disk"
    ELSE IF "scratch" \in words /\ loc # "scratch" THEN "scratch"
    ELSE loc

\* self._check_file_location(file_path): samweb locate-file, which raises
\* (logged, re-raised, read_file ends) or prints a path; then the second try ;
\* check_output is given no timeout: a tool that never answers blocks the call
RdLocate ==
    /\ pc = "rd_locate"
    /\ io' = io \cup {"locate"}
    /\ UNCHANGED <<static, procVars, attempts, opens, handle, closes, tree,
                   pending>>
    /\ \/ /\ log' = log \cup {<<"error", "locate_exception">>}
          /\ RdRaise
          /\ UNCHANGED <<reader, rd_try>>
       \/ \E words \in SUBSET LocationWords :
            /\ reader' = [reader EXCEPT
                            !.location = NewLocation(reader.location, words)]
            /\ rd_try' = "fallback"
            /\ pc' = "rd_resolve"
            /\ log' = log \cup
                 { IF NewLocation(reader.location, words) # reader.location
                   THEN <<"success", "found_retrying">>
                   ELSE <<"warning", "not_found">> }
            /\ UNCHANGED <<ret, file>>
       \/ /\ pc' = "blocked"
          /\ UNCHANGED <<reader, rd_try, ret, file, log>>

(***************************************************************************)
(* Importer.import_branches                                                *)
(***************************************************************************)
\* try: file = self.reader.read_file(self.file_name)
ImpStart ==
    /\ pc = "imp_start"
    /\ pc' = "rd_start"
    /\ UNCHANGED <<static, procVars, ret, io, log, readVars, impVars>>

\* if self.dir_name in file and self.tree_name in file[self.dir_name]: ...
\* else: the print that names the undefined `file_name`, a NameError
ImpTree ==
    /\ pc = "imp_tree"
    /\ \E found \in BOOLEAN :
         /\ tree' = IF found THEN "present" ELSE "absent"
         /\ pc' = IF found THEN "imp_extract" ELSE "imp_except"
    /\ UNCHANGED <<static, procVars, ret, io, log, readVars, closes, file,
                   pending>>

\* what the branch of the if / elif chain on self.branches can end in:
\* a return value, or an exception raised inside the try
ExtractOutcomes(branches) ==
    CASE branches = "None" -> { Returned("None", <<>>) }
      [] branches = "list" -> { Returned("array", Events(args.file_name)),
                                Raised("ArraysError") }
      [] branches = "dict" -> { Returned("array", Events(args.file_name)),
                                Raised("ArraysError"), Raised("ZipError") }
      [] branches = "*"    -> { Raised("AttributeError") }
      [] OTHER             -> { Raised("AttributeError") }

\* the body under the tree: extraction by the type of self.branches
ImpExtract ==
    /\ pc = "imp_extract"
    /\ \E o \in ExtractOutcomes(args.branches) :
         IF o.kind = "raise"
         THEN pc' = "imp_except" /\ pending' = o
         ELSE pc' = "imp_finally" /\ pending' = o
    /\ UNCHANGED <<static, procVars, ret, io, log, readVars, closes, file,
                   tree>>

\* except Exception as e (pending holds e, if the body raised one): the
\* print names the undefined `file_name`, so the handler itself raises
\* NameError and its `return None` is not reached
ImpExcept ==
    /\ pc = "imp_except"
    /\ pending' = Raised("NameError")
    /\ pc' = "imp_finally"
    /\ UNCHANGED <<static, procVars, ret, io, log, readVars, closes, file,
                   tree>>

\* (mutant of Closed) the finally clause does not close the file
ClosedNever(n) == n

\* calls of close() after the finally clause ran on a bound `file`
Closed(n) == n + 1

\* finally: if hasattr(file, "close"): file.close()
\* (an unbound `file` makes the hasattr line raise UnboundLocalError)
ImpFinally ==
    /\ pc = "imp_finally"
    /\ pc' = "done"
    /\ IF file = "bound"
       THEN /\ closes' = Closed(closes)
            /\ handle' = "closed"
            /\ ret' = pending
       ELSE /\ ret' = Raised("UnboundLocalError")
            /\ UNCHANGED <<closes, handle>>
    /\ UNCHANGED <<static, procVars, io, log, reader, rd_try, attempts, opens,
                   file, tree, pending>>

(***************************************************************************)
(* The calls.                                                              *)
(***************************************************************************)
FileNameArgs == { None, <<>>, <<"a.root">>, <<SCHEME, "a.root">> }
ListPathArgs == { None, <<>>, <<"list.txt">> }
DefnameArgs == { None, <<>>, <<"dataset">> }
WorkerArgs == { "default", "custom", "not_callable", "bad_arity" }
MaxWorkersArgs == { <<>>, <<1>> }

\* file lists handed to _process_files_parallel directly
DirectLists == { [k \in 1..n |-> <<FileToks[k]>>] : n \in 0..MaxFiles }

BranchesArgs == { "None", "list", "dict", "*", "other" }

\* valid_locations of Reader.__init__
Locations == { "tape", "disk", "scratch", "best" }

Args(f, l, d, w, m, u, b) ==
    [file_name |-> f, file_list_path |-> l, defname |-> d, worker |-> w,
     max_workers |-> m, use_processes |-> u, batch_size |-> b,
     branches |-> "list", location |-> "tape"]

\* Importer(file_name, branches, location=loc, ...) and
\* Reader(location=loc, ...).read_file(file_path)
ImportArgs(br, loc) ==
    [file_name |-> <<"a.root">>, file_list_path |-> None, defname |-> None,
     worker |-> "default", max_workers |-> <<>>, use_processes |-> FALSE,
     batch_size |-> DefaultBatchSize, branches |-> br, location |-> loc]

\* the attributes Processor.__init__ sets, with its defaults
ProcessorAttrs(r) ==
    [tree_path |-> "EventNtuple/ntuple", use_remote |-> r, location |-> "tape",
     schema |-> "root", verbosity |-> 1, worker_verbosity |-> 0]

InitProcessor ==
    /\ \E r \in BOOLEAN :
         proc = ProcessorAttrs(r)
    /\ \/ /\ fn = "process_data"
          /\ pc = "pd_start"
          /\ file_list = <<>>
          /\ \E f \in FileNameArgs, l \in ListPathArgs, d \in DefnameArgs,
                w \in WorkerArgs, m \in MaxWorkersArgs, u \in BOOLEAN :
               args = Args(f, l, d, w, m, u, DefaultBatchSize)
       \/ /\ fn = "execute"
          /\ pc = "ex_start"
          /\ file_list = <<>>
          /\ \E f \in FileNameArgs, l \in ListPathArgs, d \in DefnameArgs,
                m \in MaxWorkersArgs, u \in BOOLEAN :
               args = Args(f, l, d, "custom", m, u, DefaultBatchSize)
       \/ /\ fn = "get_file_list"
          /\ pc = "gfl_start"
          /\ file_list = <<>>
          /\ \E f \in FileNameArgs, l \in ListPathArgs, d \in DefnameArgs,
                b \in (1..MaxBatchArg) \cup {DefaultBatchSize} :
               args = Args(f, l, d, "default", <<>>, FALSE, b)
       \/ /\ fn = "_process_files_parallel"
          /\ pc = "pp_start"
          /\ file_list \in DirectLists
          /\ \E m \in MaxWorkersArgs, u \in BOOLEAN :
               args = Args(None, None, None, "custom", m, u, DefaultBatchSize)
    /\ reader = [use_remote |-> FALSE, location |-> "tape", schema |-> "root"]

\* Importer.__init__ builds its Reader; import_branches or read_file is called
InitReader ==
    /\ proc = ProcessorAttrs(FALSE)
    /\ file_list = <<>>
    /\ \/ /\ fn = "import_branches"
          /\ pc = "imp_start"
          /\ \E br \in BranchesArgs, loc \in Locations :
               args = ImportArgs(br, loc)
       \/ /\ fn = "read_file"
          /\ pc = "rd_start"
          /\ \E loc \in Locations : args = ImportArgs("list", loc)
    /\ \E r \in BOOLEAN :
         reader = [use_remote |-> r, location |-> args.location,
                   schema |-> "root"]

\* the threads of the process
Threads == 1..NThreads

\* the locals of every call, before the call has run
InitLocals ==
    /\ batch_done = {}
    /\ resolved_files = <<>>
    /\ batch_calls = <<>>
    /\ unit = <<>>
    /\ collected = {}
    /\ results = <<>>
    /\ completed_files = 0
    /\ failed_files = 0
    /\ pp_ret = NoValue
    /\ called = <<>>
    /\ lines = <<>>
    /\ ret = NoValue
    /\ io = {}
    /\ log = {}
    /\ rd_try = "first"
    /\ attempts = 0
    /\ opens = 0
    /\ handle = "none"
    /\ closes = 0
    /\ file = "unbound"
    /\ tree = "unchecked"
    /\ pending = NoValue

\* the environment manager once the object was built: the constructor of a
\* remote-mode Processor or Reader has called ensure_environment, whose set-up
\* succeeded or failed; no call is under way
InitEnvBuilt ==
    /\ env_pc = [t \in Threads |-> "idle"]
    /\ env_calls = [t \in Threads |-> 0]
    /\ IF proc.use_remote \/ reader.use_remote
       THEN \E ok \in BOOLEAN :
              /\ ENV_IS_SETUP = ok
              /\ setups = [begun |-> 1, succeeded |-> IF ok THEN 1 ELSE 0]
       ELSE /\ ENV_IS_SETUP = FALSE
            /\ setups = [begun |-> 0, succeeded |-> 0]

Init ==
    /\ InitProcessor \/ InitReader
    /\ InitLocals
    /\ InitEnvBuilt

Next ==
    \/ GflDispatch \/ GflExistsName \/ GflExistsList \/ GflRead \/ GflCatalog
    \/ GflLoaded \/ GflBatch \/ GflPrestaged
    \/ PpStart \/ PpDirect \/ PpSubmit \/ WorkerStart \/ WorkerFinish
    \/ PpCollect \/ PpLoopEnd \/ PpDrained
    \/ PdValidate \/ PdFiles \/ PdDirect \/ PdResults
    \/ ExStart \/ ExPost
    \/ RdStart \/ RdLocal \/ RdResolve \/ RdOpen \/ RdLocate
    \/ ImpStart \/ ImpTree \/ ImpExtract \/ ImpExcept \/ ImpFinally

Spec == Init /\ [][Next]_vars

(***************************************************************************)
(* _env_manager: ensure_environment called from the threads of one process *)
(* (each call is made by the constructor of a remote-mode Processor or     *)
(* Reader).  The module takes no lock.                                     *)
(***************************************************************************)
\* what ensure_environment leaves alone: every call's state
callVars == <<fn, args, proc, pc, ret, io, log, procVars, readVars, impVars>>

\* ensure_environment: if not ENV_IS_SETUP: setup_environment()
EnsureEnvironment(t) ==
    /\ env_pc[t] = "idle"
    /\ env_calls[t] < MaxEnsure
    /\ env_calls' = [env_calls EXCEPT ![t] = @ + 1]
    /\ env_pc' = [env_pc EXCEPT ![t] = IF ENV_IS_SETUP THEN "idle" ELSE "setup"]
    /\ UNCHANGED <<ENV_IS_SETUP, setups, callVars>>

\* setup_environment: logger = Logger(...) ; if not ENV_IS_SETUP: the body,
\* else return True
SetupEnvironment(t) ==
    /\ env_pc[t] = "setup"
    /\ IF ENV_IS_SETUP
       THEN /\ env_pc' = [env_pc EXCEPT ![t] = "idle"]
            /\ UNCHANGED setups
       ELSE /\ env_pc' = [env_pc EXCEPT ![t] = "body"]
            /\ setups' = [setups EXCEPT !.begun = @ + 1]
    /\ UNCHANGED <<ENV_IS_SETUP, env_calls, callVars>>

\* the body: getToken, the setup script, os.environ, ENV_IS_SETUP = True,
\* return True ; or a failing step: log, return False
SetupBody(t) ==
    /\ env_pc[t] = "body"
    /\ env_pc' = [env_pc EXCEPT ![t] = "idle"]
    /\ \E ok \in BOOLEAN :
         IF ok
         THEN /\ ENV_IS_SETUP' = TRUE
              /\ setups' = [setups EXCEPT !.succeeded = @ + 1]
         ELSE UNCHANGED <<ENV_IS_SETUP, setups>>
    /\ UNCHANGED <<env_calls, callVars>>

\* the process after `import`: ENV_IS_SETUP = False, no call made yet
EnvInit ==
    /\ fn = "ensure_environment"
    /\ pc = "threads"
    /\ args = ImportArgs("list", "tape")
    /\ proc = ProcessorAttrs(TRUE)
    /\ reader = [use_remote |-> TRUE, location |-> "tape", schema |-> "root"]
    /\ file_list = <<>>
    /\ InitLocals
    /\ ENV_IS_SETUP = FALSE
    /\ env_pc = [t \in Threads |-> "idle"]
    /\ env_calls = [t \in Threads |-> 0]
    /\ setups = [begun |-> 0, succeeded |-> 0]

EnvNext ==
    \E t \in Threads :
        \/ EnsureEnvironment(t)
        \/ SetupEnvironment(t)
        \/ SetupBody(t)

EnvSpec == EnvInit /\ [][EnvNext]_vars

\* the program keeps running: a step that can be taken is taken
LiveSpec == Spec /\ WF_vars(Next)

(***************************************************************************)
(* The claims.                                                             *)
(***************************************************************************)

\* C1: process_data reaches file resolution only with exactly one of
\* file_name, file_list_path, defname not None; with none or several the call
\* is over as soon as it has left its first check, rejected (an error logged,
\* None returned: the code's form of a ConfigError), with no side effect: no
\* get_file_list, no existence check, no read, no subprocess, no pool, no
\* worker.
C1_ExactlyOneSource ==
    (fn = "process_data" /\ pc # "pd_start" /\ FileSources(args) # 1)
        => /\ pc = "done"
           /\ ret = Returned("None", <<>>)
           /\ <<"error", "exactly_one">> \in log
           /\ io = {}
           /\ file_list = <<>>
           /\ unit = <<>>

C1_Witness ==
    /\ fn = "process_data"
    /\ pc = "done"
    /\ FileSources(args) = 2
    /\ args.worker = "default"
    /\ ret.kind = "None"

\* how many of the three sources a call supplies (a name, not None or "")
Supplied(a) ==
    Cardinality({ k \in {"file_name", "file_list_path", "defname"} :
                    Truthy(a[k]) })

\* C2 (as claimed): get_file_list called with none, or with two or more, of
\* its three sources supplied does no I/O at all and ends rejected with an
\* error; it never picks one of several sources.
C2_DirectCallRejected ==
    (fn = "get_file_list" /\ Supplied(args) # 1)
        => /\ io = {}
           /\ pc = "done" => (ret.val = <<>> /\ \E m \in log : m[1] = "error")

\* C3: when _process_files_parallel on N > 1 files hands a worker exception
\* to its caller, every one of the N submitted work units has run to its end:
\* none is left queued or running, none was skipped.
C3_AllUnitsRunBeforeRaise ==
    (pp_ret.kind = "raise" /\ NFiles > 1)
        => /\ Len(unit) = NFiles
           /\ \A i \in 1..NFiles : unit[i] \in Finished

C3_Witness ==
    /\ pp_ret.kind = "raise"
    /\ NFiles = 3
    /\ \E i, j \in 1..NFiles :
         /\ unit[i] = "raise"
         /\ unit[j] = "value"
         /\ j \notin collected

\* C4 (as claimed): whenever _process_files_parallel stops on N > 1 files, by
\* return or by re-raising, completed_files + failed_files = N.
C4_CountersSumToN ==
    (pp_ret.kind \in {"list", "raise"} /\ NFiles > 1)
        => completed_files + failed_files = NFiles

\* C4 (amended): on N > 1 files the counters always sum to the number of
\* futures the loop has handled; that is N when the call returns, and at most
\* N, with the failing unit counted, when it re-raises a worker exception.
C4_CountersSumToCollected ==
    NFiles > 1 =>
        /\ completed_files + failed_files = Cardinality(collected)
        /\ completed_files = Len(results)
        /\ pp_ret.kind = "list" => completed_files + failed_files = NFiles
        /\ pp_ret.kind = "raise" =>
              /\ failed_files >= 1
              /\ completed_files + failed_files <= NFiles

C4_Witness ==
    /\ pp_ret.kind = "list"
    /\ NFiles = 3
    /\ completed_files = 2
    /\ failed_files = 1

\* C5 (as claimed): on a file list of length 1 no pool is built and the caller
\* gets the worker's own return value, or the worker's exception.
C5_SingleFileSameAsWorker ==
    (fn = "_process_files_parallel" /\ pc = "done" /\ NFiles = 1)
        => /\ io \cap {"thread_pool", "process_pool"} = {}
           /\ \/ ret = Raised("WorkerError")
              \/ \E o \in {"value", "None"} : ret = DirectValue(file_list[1], o)

\* C5 (amended): on a file list of length 1 no pool is built, the worker is
\* called, and the caller gets the one-element list holding the worker's
\* return value (None included), or the worker's exception.
C5_SingleFileListOfResult ==
    (pp_ret # NoValue /\ NFiles = 1)
        => /\ io \cap {"thread_pool", "process_pool"} = {}
           /\ "worker" \in io
           /\ unit = <<>>
           /\ \/ pp_ret = Raised("WorkerError")
              \/ \E o \in {"value", "None"} :
                   pp_ret = Returned("list", <<Result(file_list[1], o)>>)

C5_Witness ==
    /\ fn = "_process_files_parallel"
    /\ pc = "done"
    /\ NFiles = 1
    /\ ret = Returned("list", <<Result(file_list[1], "None")>>)
\* C6: when import_branches is over, close() has been called exactly once on
\* the handle read_file opened, whatever the exit: a result returned, None
\* returned for branches = None, an exception after a missing tree, an
\* unrecognised branch spec or a failed extraction.  (When read_file opened
\* nothing there is no handle, and nothing is closed.)
C6_ClosedExactlyOnce ==
    /\ closes <= 1
    /\ (fn = "import_branches" /\ pc = "done")
         => IF handle = "none" THEN closes = 0
            ELSE closes = 1 /\ handle = "closed"

C6_Witness ==
    /\ fn = "import_branches"
    /\ pc = "done"
    /\ tree = "present"
    /\ ret.kind = "raise"
    /\ closes = 1

\* C7 (as claimed): when the tree is absent from a file that was opened,
\* import_branches returns None and raises nothing.
C7_MissingTreeReturnsNone ==
    (fn = "import_branches" /\ pc = "done" /\ tree = "absent")
        => ret = Returned("None", <<>>)

\* C8: in remote mode one read_file makes at most two calls of _get_file, and
\* so at most two opens; it hands back a handle only for a file it opened, and
\* when no open succeeded, the retry included, it ends with an exception.
C8_AtMostTwoAttempts ==
    reader.use_remote =>
        /\ attempts <= 2
        /\ opens <= attempts
        /\ (fn = "read_file" /\ pc = "done")
             => /\ ret.kind \in {"handle", "raise"}
                /\ ret.kind = "handle" <=> handle = "open"

C8_Witness ==
    /\ fn = "read_file"
    /\ reader.use_remote
    /\ pc = "done"
    /\ attempts = 2
    /\ opens = 2
    /\ ret.kind = "raise"

\* C9 (as claimed): in remote mode a second call of _get_file is made only
\* after the location service moved self.location away from the location the
\* Reader was built with.
C9_RetryOnlyAfterLocationChange ==
    (reader.use_remote /\ attempts = 2) => reader.location # args.location

\* the arrays of the files of fl, in the order p, one after the other
RECURSIVE ConcatInOrder(_, _)
ConcatInOrder(fl, p) ==
    IF p = <<>> THEN <<>>
    ELSE Events(fl[Head(p)]) \o ConcatInOrder(fl, Tail(p))

\* the orders in which n futures can complete: the permutations of 1..n
Orders(n) == { p \in [1..n -> 1..n] : \A i, j \in 1..n : p[i] = p[j] => i = j }

\* every work unit of the run gave a value
AllImported ==
    IF NFiles > 1
    THEN Len(unit) = NFiles /\ \A i \in 1..NFiles : unit[i] = "value"
    ELSE /\ NFiles = 1
         /\ pp_ret.kind = "list"
         /\ \A k \in 1..Len(pp_ret.val) : pp_ret.val[k].kind = "value"

C11_CustomListOnePerFile ==
    (fn \in {"process_data", "execute"} /\ pc = "done"
       /\ args.worker = "custom" /\ pp_ret.kind = "list")
        => /\ ret.kind = "list"
           /\ Len(ret.val) = NFiles
           /\ \A i \in 1..NFiles :
                \E k \in 1..Len(ret.val) : ret.val[k].file = file_list[i]

\* C11 (amended): with a custom worker process_data (and Skeleton.execute,
\* whose postprocess is the identity) returns the list that
\* _process_files_parallel built, untouched.  For a file list of one file it is
\* [result], a None result included; for more files it holds exactly one
\* entry for each file whose worker returned a value other than None, and no
\* entry for a file whose worker returned None.
C11_CustomListOfNonNone ==
    (fn \in {"process_data", "execute"} /\ pc = "done"
       /\ args.worker = "custom" /\ pp_ret.kind = "list")
        => /\ ret = Returned("list", pp_ret.val)
           /\ IF NFiles = 1
              THEN \E o \in {"value", "None"} :
                     ret.val = <<Result(file_list[1], o)>>
              ELSE /\ \A k \in 1..Len(ret.val) : ret.val[k].kind = "value"
                   /\ \A i \in 1..NFiles :
                        Cardinality({ k \in 1..Len(ret.val) :
                                        ret.val[k].file = file_list[i] })
                          = IF unit[i] = "value" THEN 1 ELSE 0

\* a Skeleton.execute run over three files, one worker returned None: two
\* entries come back
C11_Witness ==
    /\ fn = "execute"
    /\ pc = "done"
    /\ NFiles = 3
    /\ ret.kind = "list"
    /\ Len(ret.val) = 2
    /\ \E i \in 1..3 : unit[i] = "None"

\* the side effects that stand for a pool having been built
Pools == {"thread_pool", "process_pool", "prestage_pool"}

\* C12: process_data with file_name given and the file accessible (the file
\* list came back as [file_name]) calls the worker exactly once, on that
\* file, builds no pool, and hands back what the worker gave as it is: the
\* array, the custom value or None, or the worker's exception; never a list
\* around it and never a concatenation.
C12_SingleFileDirect ==
    (fn = "process_data" /\ pc = "done" /\ ~Rejected(args)
       /\ Truthy(args.file_name) /\ file_list # <<>>)
        => /\ file_list = <<args.file_name>>
           /\ called = <<args.file_name>>
           /\ io \cap Pools = {}
           /\ unit = <<>>
           /\ \/ ret = Raised("WorkerError")
              \/ ret = Returned("None", <<>>)
              \/ /\ args.worker = "default"
                 /\ ret = Returned("array", Events(args.file_name))
              \/ /\ args.worker = "custom"
                 /\ ret = Returned("value", <<args.file_name>>)

\* a local file that exists was imported by the default worker
C12_Witness ==
    /\ fn = "process_data"
    /\ pc = "done"
    /\ ~proc.use_remote
    /\ args.file_name = <<"a.root">>
    /\ "exists" \in io
    /\ called = <<args.file_name>>
    /\ ret.kind = "array"

\* C13 (as claimed): process_data(file_name=x) in local mode, x not existing,
\* ends in a failure to open the file (OpenError) and builds no pool; it does
\* not end in an error of another kind.
C13_MissingFileOpenError ==
    (fn = "process_data" /\ pc = "done" /\ ~Rejected(args)
       /\ ~proc.use_remote /\ Truthy(args.file_name)
       /\ <<"warning", "file_missing">> \in log)
        => /\ ret = Raised("OpenError")
           /\ io \cap Pools = {}

\* C14 (as claimed): in remote mode a bare file_name (no scheme prefix, not a
\* local path that exists) is resolved by one direct resolver call, without
\* a pool, and the worker then runs on the resolved URL.
C14_BareNameResolvedDirectly ==
    (/\ fn \in {"process_data", "get_file_list"}
     /\ fn = "process_data" => ~Rejected(args)
     /\ pc = "done"
     /\ proc.use_remote
     /\ Truthy(args.file_name) /\ ~StartsWithScheme(args.file_name)
     /\ <<"warning", "file_missing">> \in log)
        => /\ "resolver" \in io
           /\ io \cap Pools = {}
           /\ fn = "process_data" =>
                (called = <<>> \/ called = <<ResolvedURL(args.file_name)>>)
           /\ ret # Raised("IndexError")

\* t is the line l without the whitespace at its two ends
IsStripOf(t, l) ==
    \E i, j \in 0..Len(l) :
        /\ i + Len(t) + j = Len(l)
        /\ \A k \in 1..i : l[k] = SP
        /\ \A k \in (Len(l) - j + 1)..Len(l) : l[k] = SP
        /\ \A k \in 1..Len(t) : t[k] = l[i + k]
        /\ t # <<>> => (t[1] # SP /\ t[Len(t)] # SP)

\* the positions of the lines that are not blank
NonBlank(ls) == { k \in 1..Len(ls) : ~IsStripOf(<<>>, ls[k]) }

\* the j-th non-blank position
NthNonBlank(ls, j) ==
    CHOOSE k \in NonBlank(ls) :
        Cardinality({ m \in NonBlank(ls) : m < k }) = j - 1

\* C15: in local mode get_file_list(file_list_path=p), p an existing file that
\* was read, returns exactly the non-blank lines of p, each without the
\* whitespace at its ends, in the order of the file: as many entries as
\* non-blank lines, the j-th entry being the j-th non-blank line stripped.
C15_NonBlankLinesInOrder ==
    (fn = "get_file_list" /\ pc = "done" /\ ~proc.use_remote
       /\ "read" \in io)
        => /\ ret.kind = "list"
           /\ Len(ret.val) = Cardinality(NonBlank(lines))
           /\ \A j \in 1..Len(ret.val) :
                IsStripOf(ret.val[j], lines[NthNonBlank(lines, j)])

\* a list file of three lines: a padded name, a blank line, a name
C15_Witness ==
    /\ fn = "get_file_list"
    /\ pc = "done"
    /\ ~proc.use_remote
    /\ Len(lines) = 3
    /\ lines[1] = <<SP, "f1", SP>>
    /\ lines[2] \in {<<>>, <<SP>>}
    /\ lines[3] = <<"f3">>
    /\ ret = Returned("list", << <<"f1">>, <<"f3">> >>)

\* C16 (as claimed): get_file_list(file_list_path=p), p not existing, fails
\* with a MissingFileError that ends the call, and an enclosing process_data
\* call with it; the caller is not handed an ordinary empty list.
C16_MissingListIsFatal ==
    (/\ fn \in {"get_file_list", "process_data"}
     /\ fn = "process_data" => ~Rejected(args)
     /\ pc = "done"
     /\ <<"error", "list_missing">> \in log)
        => /\ ret = Raised("MissingFileError")
           /\ io \cap Pools = {}

\* C17: get_file_list(defname=d) whose catalogue query raises, or prints no
\* file name at all (no output, or empty lines only), returns the empty list:
\* a list, not None, and no exception.
C17_EmptyCatalogGivesEmptyList ==
    (fn = "get_file_list" /\ pc = "done" /\ "catalog" \in io
       /\ \A k \in 1..Len(lines) : lines[k] = <<>>)
        => /\ ret = Returned("list", <<>>)
           /\ \/ <<"error", "catalog_exception">> \in log
              \/ <<"warning", "empty_list">> \in log

\* the query printed one empty line and nothing else
C17_Witness ==
    /\ fn = "get_file_list"
    /\ pc = "done"
    /\ "catalog" \in io
    /\ lines = << <<>> >>
    /\ ret = Returned("list", <<>>)

\* the file list get_file_list loaded before prestaging: the non-blank raw
\* lines, in order, without their surrounding whitespace
Loaded(ls) ==
    [j \in 1..Cardinality(NonBlank(ls)) |->
        SelectSeq(ls[NthNonBlank(ls, j)], LAMBDA t : t # SP)]

\* C18: after remote prestaging get_file_list returns a list (nothing is
\* raised) made of exactly the URLs of the batches whose resolver call
\* succeeded: the j-th loaded file, which lies in batch (j-1) div batch_size,
\* has its URL in the list once if that batch succeeded and not at all if it
\* failed, and nothing else is in the list; every batch got exactly one
\* resolver call.
C18_FailedBatchesDropped ==
    (fn = "get_file_list" /\ pc = "done" /\ "prestage_pool" \in io)
        => LET orig == Loaded(lines)
               ok(j) == batch_calls[((j - 1) \div args.batch_size) + 1] = <<"ok">>
           IN  /\ ret.kind = "list"
               /\ Len(batch_calls) * args.batch_size >= Len(orig)
               /\ (Len(batch_calls) - 1) * args.batch_size < Len(orig)
               /\ \A b \in 1..Len(batch_calls) : Len(batch_calls[b]) = 1
               /\ \A j \in 1..Len(orig) :
                    Cardinality({ k \in 1..Len(ret.val) :
                                    ret.val[k] = <<SCHEME>> \o orig[j] })
                      = IF ok(j) THEN 1 ELSE 0
               /\ Len(ret.val) = Cardinality({ j \in 1..Len(orig) : ok(j) })

\* three files in batches of one: the second batch failed, the other two URLs
\* came back
C18_Witness ==
    /\ fn = "get_file_list"
    /\ pc = "done"
    /\ args.batch_size = 1
    /\ batch_calls = << <<"ok">>, <<"failed">>, <<"ok">> >>
    /\ Len(ret.val) = 2
    /\ <<"warning", "batch_failed">> \in log

\* C19: a custom_worker_func that is not callable, or that does not have
\* exactly one parameter, makes process_data end at its checks: an error is
\* logged and None returned (the code's form of a ConfigError) before
\* get_file_list, any file access, any pool and any worker call.
C19_BadWorkerRejectedFirst ==
    (fn = "process_data" /\ pc # "pd_start" /\ FileSources(args) = 1
       /\ args.worker \in {"not_callable", "bad_arity"})
        => /\ pc = "done"
           /\ ret = Returned("None", <<>>)
           /\ <<"error", args.worker>> \in log
           /\ io = {}
           /\ called = <<>>
           /\ file_list = <<>>

\* a two-parameter function was passed with a file list path
C19_Witness ==
    /\ fn = "process_data"
    /\ pc = "done"
    /\ args.worker = "bad_arity"
    /\ args.file_list_path = <<"list.txt">>
    /\ FileSources(args) = 1
    /\ ret.kind = "None"
    /\ io = {}

\* C20 (as claimed): import_branches with the wildcard "*" on a file whose
\* tree is there returns the array of all columns, the one a call with the
\* explicit list of all column names returns: an array, not None, no error.
C20_WildcardImportsAll ==
    (fn = "import_branches" /\ pc = "done" /\ args.branches = "*"
       /\ tree = "present")
        => ret = Returned("array", Events(args.file_name))

\* C21 (as claimed): when the zip of a grouped branch spec fails on groups of
\* different per-event length, import_branches ends in a schema mismatch
\* failure (raised, or reported and answered with None) and hands no array,
\* whole or partial, to its caller.
C21_ZipFailureIsSchemaMismatch ==
    [][(pc = "imp_except" /\ args.branches = "dict"
          /\ pending = Raised("ZipError"))
         => pending' \in {Raised("SchemaMismatchError"),
                          Returned("None", <<>>)}]_vars

\* C22 (as claimed): _process_files_parallel on an empty file list is turned
\* away as a configuration error (an error logged and None returned, or a
\* ConfigError raised), and a multi-file process_data call whose file list
\* came back empty ends in that same rejection, not in another failure.
C22_EmptyListIsConfigError ==
    (/\ fn \in {"_process_files_parallel", "process_data"}
     /\ fn = "process_data" =>
          (Truthy(args.file_list_path) \/ Truthy(args.defname))
     /\ pc = "done"
     /\ <<"error", "empty_file_list">> \in log)
        => ret \in {Returned("None", <<>>), Raised("ConfigError")}

Phase ==
    CASE pc = "ex_start" -> 0
      [] pc = "pd_start" -> 1
      [] pc \in {"gfl_start", "gfl_exists_name", "gfl_exists_list", "gfl_read",
                 "gfl_catalog", "gfl_loaded", "gfl_prestage", "pd_files",
                 "blocked"} -> 2
      [] pc \in {"pd_direct", "pp_start", "pp_direct", "pp_submit"} -> 3
      [] pc \in {"pp_collect", "pp_drain"} -> 4
      [] pc = "pd_results" -> 5
      [] OTHER -> 6

\* one step of a process_data call, as C24 wants it
PhasesStep ==
    fn \in {"process_data", "execute"}
        => /\ Phase' >= Phase
           /\ called' # called => (Phase \in {3, 4} /\ Phase' >= 3)
           /\ (pc' = "pd_results" /\ pc # "pd_results")
                => /\ \A i \in 1..Len(unit') : unit'[i] \in Finished
                   /\ collected' = 1..Len(unit')
                   /\ Len(called') = Len(file_list')

\* C24: a process_data call (also the one Skeleton.execute makes) never steps
\* back to an earlier phase; the worker is called only once file resolution
\* is over; and aggregation is entered only when every submitted work unit
\* has ended and its future has been handled, never from a part of them.
C24_PhasesInOrder == [][PhasesStep]_vars

\* aggregation is about to start on three files, all three units ended
C24_Witness ==
    /\ fn = "process_data"
    /\ pc = "pd_results"
    /\ Len(unit) = 3
    /\ \A i \in 1..3 : unit[i] \in Finished
    /\ Len(called) = 3

\* the files a result list holds results of, in the order of the list
FilesOf(res) == [k \in 1..Len(res) |-> res[k].file]

\* the arrays of the files fs, one after the other
RECURSIVE ArraysInOrder(_)
ArraysInOrder(fs) ==
    IF fs = <<>> THEN <<>> ELSE Events(Head(fs)) \o ArraysInOrder(Tail(fs))

\* one step keeps the order in which the futures were handled
CompletionStep ==
    /\ results' # results
         => \E i \in 1..NFiles :
               /\ i \notin collected
               /\ collected' = collected \cup {i}
               /\ results' = Append(results, [file |-> file_list[i],
                                              kind |-> "value"])
    /\ (pc = "pp_collect" /\ pc' # pc /\ pp_ret'.kind = "list")
         => pp_ret'.val = results
    /\ (pc = "pd_results" /\ ret'.kind = "list") => ret'.val = pp_ret.val
    /\ (pc = "pd_results" /\ ret'.kind = "array")
         => ret'.val = ArraysInOrder(FilesOf(pp_ret.val))

\* C25: the result list of a multi-file run grows only at its end, by the
\* result of the future as_completed has just yielded, so it is in completion
\* order; the list is returned, and handed on or concatenated by
\* process_data, in that order, no step sorting it.  (That the order can
\* differ from the file list's is the state C25_Witness describes.)
C25_CompletionOrder == [][CompletionStep]_vars

\* two files, two workers: the array of the second file comes first
C25_Witness ==
    /\ fn = "process_data"
    /\ pc = "done"
    /\ args.worker = "default"
    /\ NFiles = 2
    /\ MaxWorkers = 2
    /\ ret = Returned("array", Events(file_list[2]) \o Events(file_list[1]))

\* the work units that ended as o
UnitsEnded(o) == { i \in 1..Len(unit) : unit[i] = o }

\* C26: in a run over two or more files in which no worker raised, some
\* worker returned None and some other returned a value, every None is
\* counted as failed and has no entry in the results, every value is counted
\* as completed and has its one entry, and process_data ends normally with
\* the aggregate of exactly the values (the concatenated array, or the list
\* of a custom worker): no None reaches the concatenation.
C26_NoneExcludedOthersKept ==
    (/\ fn = "process_data" /\ pc = "done"
     /\ NFiles >= 2 /\ Len(unit) = NFiles
     /\ UnitsEnded("raise") = {}
     /\ UnitsEnded("None") # {} /\ UnitsEnded("value") # {}
     /\ UnitsEnded("None") \cup UnitsEnded("value") = 1..NFiles)
        => /\ failed_files = Cardinality(UnitsEnded("None"))
           /\ completed_files = Cardinality(UnitsEnded("value"))
           /\ Len(results) = completed_files
           /\ \A k \in 1..Len(results) : results[k].kind = "value"
           /\ \A i \in UnitsEnded("value") :
                \E k \in 1..Len(results) : results[k].file = file_list[i]
           /\ IF args.worker = "default"
              THEN ret = Returned("array", ArraysInOrder(FilesOf(results)))
              ELSE ret = Returned("list", results)

\* three files, the second one gave None: the array of the other two
C26_Witness ==
    /\ fn = "process_data"
    /\ pc = "done"
    /\ args.worker = "default"
    /\ unit = <<"value", "None", "value">>
    /\ failed_files = 1
    /\ ret.kind = "array"
    /\ Len(ret.val) = 2 * Len(Events(file_list[1]))

\* C27: while get_file_list prestages a list of n files, the batches are
\* ceil(n / batch_size) in number, each holds between 1 and batch_size files,
\* they are consecutive slices of the list (slot k of batch b is file
\* b * batch_size + k), every file lies in exactly one batch, and every batch
\* gets one resolver call: none before its future is handled, one after.
C27_BatchesPartitionTheList ==
    pc = "gfl_prestage"
        => LET n == Len(file_list)
               bs == args.batch_size
               nb == Len(batch_calls)
               batch(b) == BatchFiles(file_list, bs, b)
           IN  /\ nb * bs >= n /\ (nb - 1) * bs < n
               /\ \A b \in 0..(nb - 1) :
                    /\ Len(batch(b)) \in 1..bs
                    /\ \A k \in 1..Len(batch(b)) :
                         batch(b)[k] = file_list[b * bs + k]
                    /\ Len(batch_calls[b + 1]) = IF b \in batch_done THEN 1 ELSE 0
               /\ \A j \in 1..n :
                    Cardinality({ b \in 0..(nb - 1) :
                        \E k \in 1..Len(batch(b)) : b * bs + k = j }) = 1
               /\ batch_done \subseteq 0..(nb - 1)

\* three files in batches of two: two batches, both resolved
C27_Witness ==
    /\ fn = "get_file_list"
    /\ pc = "gfl_prestage"
    /\ Len(file_list) = 3
    /\ args.batch_size = 2
    /\ Len(batch_calls) = 2
    /\ batch_done = {0, 1}

\* C28 (as claimed): every shell call made to resolve a remote file or to
\* find a file list has a timeout, so read_file and get_file_list come to an
\* end, returning or raising, even when the resolver, the locator or the
\* catalogue tool never answers.
C28_CallsEndDespiteSilentTools ==
    (fn \in {"read_file", "get_file_list"}) => <>(pc = "done")

\* the entry points that are methods of a Processor
ProcessorCalls ==
    {"get_file_list", "_process_files_parallel", "process_data", "execute"}

\* no step of a Processor method writes an attribute of the Processor
ProcessorStep == fn \in ProcessorCalls => proc' = proc

\* C29: get_file_list, _process_files_parallel and process_data never write
\* to the Processor: at every step its attributes (tree_path, use_remote,
\* location, schema, verbosity, worker_verbosity) are what they were and no
\* attribute (file list, result, counter) is added, so a later call finds the
\* Processor as the constructor left it.
C29_ProcessorUnchanged == [][ProcessorStep]_vars

\* a remote run over two files has ended; the Processor is as built
C29_Witness ==
    /\ fn = "process_data"
    /\ pc = "done"
    /\ proc = ProcessorAttrs(TRUE)
    /\ "prestage_pool" \in io
    /\ Len(called) = 2
    /\ ret.kind = "array"

\* C30 (as claimed): in one process the set-up body (token, setup script,
\* os.environ) runs to success at most once, also when several threads call
\* ensure_environment at the same time.
C30_SetupAtMostOnce == setups.succeeded <= 1

====
